---- MODULE Spec2Model ----
(***************************************************************************)
(* Model of hf_model_downloader_gui.py: the DownloadWorker thread (run),   *)
(* the controller-side methods stop / pause / resume, the external aria2c  *)
(* transfer processes the worker launches and supervises, and the          *)
(* MainWindow that creates the sessions and reacts to their signals.       *)
(*                                                                         *)
(* Two threads interleave at statement granularity: the worker (pcW) and   *)
(* the single controller (GUI) thread (pcC).  The environment decides the  *)
(* outcome of every system call (makedirs, Popen, readline, the exit of a  *)
(* transfer process).                                                      *)
(*                                                                         *)
(* Spec, FairSpec and SpecBulk follow one DownloadWorker whose methods are *)
(* called in any order; SpecGui follows the whole application, where the   *)
(* methods are called from the slots of the buttons.                       *)
(***************************************************************************)
EXTENDS Integers, Sequences, FiniteSets, TLC

\* ---- bounds of the model ----
MaxFiles == 2      \* longest selected_files list under Spec
MaxCmds == 3       \* controller calls (stop/pause/resume) per session
MaxOut == 1        \* output lines a transfer process prints
MaxBulk == 50      \* longest selected_files list under SpecBulk (no controller)
MaxGuiFiles == 1   \* entries of the file list widget under SpecGui
MaxStarts == 2     \* clicks on the start button under SpecGui
MaxGuiCmds == 2    \* clicks on pause/resume/stop per session under SpecGui

VARIABLES
    selected_files,   \* self.selected_files: sequence of file names
    repo_id,          \* self.repo_id (a string: sequence of pieces)
    local_dir,        \* self.local_dir
    speed_limit,      \* self.speed_limit
    aria2c_exists,    \* environment: os.path.exists(aria2c_path)
    running,          \* self.running
    is_paused,        \* self.is_paused
    pause_requested,  \* self.pause_requested (threading.Event): TRUE = set
    current_process,  \* self.current_process: 0 = None, else index in procs
    pcW,              \* position of the worker thread in run()
    i,                \* loop index of `for i, file_path in enumerate(...)`
    process,          \* local `process` of run(): index in procs, 0 = unbound
    return_code,      \* local `return_code` of run()
    procs,            \* every transfer process launched so far
    events,           \* signals emitted so far, in emission order
    pcC,              \* position of the controller thread
    cmdsLeft,         \* controller calls still allowed by the bound
    envlog,           \* history: outcomes the environment gave the worker
    stopEarly,        \* history: stop() was called before any terminal event
    lastCall,         \* history: the controller method called last
    download_btn,     \* MainWindow: the slot download_btn.clicked is wired to
    download_enabled, \* MainWindow: download_btn.isEnabled()
    stop_btn,         \* MainWindow: stop_btn.isEnabled()
    worker,           \* MainWindow: self.worker, 0 = None, else session number
    handled,          \* MainWindow: worker-thread signals delivered to slots
    startsLeft,       \* clicks on the start button still allowed by the bound
    lastReturn,       \* history: the return the last start_download took
    activeReplaced    \* history: self.worker was replaced before it ended

sessVars == <<selected_files, repo_id, local_dir, speed_limit, aria2c_exists>>
guiVars == <<download_btn, download_enabled, stop_btn, worker, handled,
             startsLeft, lastReturn, activeReplaced>>

vars == <<sessVars, running, is_paused, pause_requested, current_process,
          pcW, i, process, return_code, procs, events, pcC, cmdsLeft, envlog,
          stopEarly, lastCall, guiVars>>

workerVars == <<pcW, i, process, return_code>>
flagVars == <<running, is_paused, pause_requested>>
ctlVars == <<pcC, cmdsLeft, stopEarly, lastCall>>

\* ---- signals (pyqtSignal declarations) ----
Ev(t, p, f) == [type |-> t, percent |-> p, file |-> f]
progress(p, f) == Ev("Progress", p, f)
finished == Ev("Finished", 0, 0)
cancelled == Ev("Cancelled", 0, 0)
paused == Ev("Paused", 0, 0)
resumed == Ev("Resumed", 0, 0)
error(f) == Ev("Error", 0, f)

TerminalTypes == {"Finished", "Cancelled", "Error"}

\* ---- int((i + 1) / total * 100) in IEEE-754 double arithmetic ----
\* 2^s mod n, by repeated squaring
RECURSIVE Pow2Mod(_, _)
Pow2Mod(s, n) ==
    IF s = 0 THEN 1 % n
    ELSE LET h == Pow2Mod(s \div 2, n)
         IN  (h * h * (IF s % 2 = 1 THEN 2 ELSE 1)) % n

RECURSIVE BinExp(_, _, _)
\* least e with k * 2^e >= n, returned as the pair <<e, k * 2^e>>
BinExp(k, n, e) == IF k >= n THEN <<e, k>> ELSE BinExp(2 * k, n, e + 1)

\* (k / n) is rounded to a 53-bit mantissa m = RN(k * 2^s / n), s = 52 + e;
\* the product m * 100 is rounded to 53 bits again and truncated by int().
\* The result differs from the exact quotient only when 100k/n is an integer P,
\* the first rounding went down by more than 0.32 ulp (r/n in (0.32, 0.5)) and
\* the product lies below 2^59 (spacing 64): then the product rounds to
\* P * 2^s - 64 and int() yields P - 1.
FloatPercent(k, n) ==
    LET P == (100 * k) \div n
        be == BinExp(k, n, 0)
        s == 52 + be[1]
        r == ((k % n) * Pow2Mod(s, n)) % n
    IN  IF (100 * k) % n # 0 THEN P
        ELSE IF 100 * be[2] <= 128 * n /\ 100 * r > 32 * n /\ 2 * r < n
             THEN P - 1
             ELSE P

percent(idx, n) == FloatPercent(idx + 1, n)

\* ---- strings: a string is the sequence of its pieces ----
\* A piece is a character or a run of characters with no separator and no
\* blank in it; "/" (the path separator) and " " are pieces of their own.
\* None is a value that is no string the user can type.
None == <<"None">>

\* truth value of `x` in `if x:` / `not x` for x a string or None
Truthy(x) == x # None /\ x # <<>>

RECURSIVE lstrip(_)
lstrip(s) == IF s # <<>> /\ Head(s) = " " THEN lstrip(Tail(s)) ELSE s

RECURSIVE rstrip(_)
rstrip(s) ==
    IF s # <<>> /\ s[Len(s)] = " " THEN rstrip(SubSeq(s, 1, Len(s) - 1)) ELSE s

\* str.strip()
strip(s) == rstrip(lstrip(s))

\* str.upper(), on the letters the model uses
upper(s) ==
    [k \in 1..Len(s) |->
        CASE s[k] = "k" -> "K" [] s[k] = "m" -> "M" [] s[k] = "g" -> "G"
          [] OTHER -> s[k]]

\* index of the last "/" of s, 0 when there is none (str.rfind + 1)
rfind(s) ==
    LET at == {k \in 1..Len(s) : s[k] = "/"}
    IN  IF at = {} THEN 0 ELSE CHOOSE k \in at : \A j \in at : j <= k

RECURSIVE split(_)
\* str.split("/"): the segments between the separators, left to right
split(s) ==
    LET at == {k \in 1..Len(s) : s[k] = "/"}
    IN  IF at = {} THEN <<s>>
        ELSE LET k == CHOOSE x \in at : \A j \in at : x <= j
             IN  <<SubSeq(s, 1, k - 1)>> \o split(SubSeq(s, k + 1, Len(s)))

\* mutant of model_name: the first segment instead of the last
model_name_first(repo) == split(repo)[1]

\* model_name = self.repo_id.split("/")[-1]
model_name(repo) == split(repo)[Len(split(repo))]

\* os.path.join(a, b)
join(a, b) ==
    IF b # <<>> /\ Head(b) = "/" THEN b
    ELSE IF a = <<>> \/ a[Len(a)] = "/" THEN a \o b
    ELSE a \o <<"/">> \o b

RECURSIVE rstripsep(_)
rstripsep(s) ==
    IF s # <<>> /\ s[Len(s)] = "/" THEN rstripsep(SubSeq(s, 1, Len(s) - 1))
    ELSE s

\* os.path.dirname(p)
dirname(p) ==
    LET head == SubSeq(p, 1, rfind(p))
    IN  IF head # <<>> /\ (\E k \in 1..Len(head) : head[k] # "/")
        THEN rstripsep(head) ELSE head

\* os.path.basename(p)
basename(p) == SubSeq(p, rfind(p) + 1, Len(p))

\* the repository-relative path of file f, as list_repo_files returns it:
\* odd f at the top level, even f in a subdirectory
file_path(f) ==
    IF f % 2 = 1 THEN <<ToString(f)>> ELSE <<"sub", "/", ToString(f)>>

\* final_dir = os.path.join(self.local_dir, model_name)
final_dir == join(local_dir, model_name(repo_id))

\* full_path = os.path.join(final_dir, file_path)
full_path(f) == join(final_dir, file_path(f))

\* ---- transfer processes ----
\* cmd = [aria2c_path, ..., "--dir", dirname(full_path), "--out",
\* basename(full_path), url]; `limit` holds what follows --max-download-limit
\* (empty: the option is absent)
NewProc(f, o) ==
    [file |-> f, live |-> TRUE, rc |-> 0, out |-> o, killed |-> FALSE,
     termW |-> FALSE, termC |-> FALSE, stopAtExit |-> FALSE,
     dir |-> dirname(full_path(f)), name |-> basename(full_path(f)),
     limit |-> IF Truthy(speed_limit) THEN <<speed_limit>> ELSE <<>>]

\* Popen.terminate(): kills a live process (non-zero exit status); no effect
\* on one that already exited.  `by` is "W" (worker) or "C" (controller).
terminate(ps, p, by) ==
    LET q0 == IF by = "W" THEN [ps[p] EXCEPT !.termW = TRUE]
                          ELSE [ps[p] EXCEPT !.termC = TRUE]
        q1 == IF q0.live
              THEN [q0 EXCEPT !.live = FALSE, !.rc = 1, !.killed = TRUE,
                              !.stopAtExit = ~running]
              ELSE q0
    IN  [ps EXCEPT ![p] = q1]

LiveProcs == {p \in 1..Len(procs) : procs[p].live}

total == Len(selected_files)

\* ---- initial states ----
FileLists ==
    UNION { { s \in [1..n -> 1..MaxFiles] :
                \A a, b \in 1..n : a # b => s[a] # s[b] } : n \in 0..MaxFiles }

\* repository identifiers a session is constructed with
RepoIds ==
    { <<"MiniMaxAI", "/", "MiniMax-M2">>, <<"single-name">>,
      <<"a", "/", "b", "/", "c">> }

\* DownloadWorker.__init__
InitWorker ==
    /\ running = TRUE
    /\ is_paused = FALSE
    /\ pause_requested = TRUE
    /\ current_process = 0
    /\ pcW = "init"
    /\ i = 0
    /\ process = 0
    /\ return_code = 0
    /\ procs = <<>>
    /\ events = <<>>
    /\ pcC = "idle"
    /\ envlog = <<>>
    /\ stopEarly = FALSE
    /\ lastCall = "none"

\* the inputs start_download reads: the two text fields, the checked
\* entries of the file list, the speed checkbox and the speed field
StartInput(repo, dir, files, on, speed) ==
    [repo |-> repo, dir |-> dir, files |-> files, on |-> on, speed |-> speed]

\* MainWindow.__init__ (init_ui): download_btn wired to start_download and
\* disabled, stop_btn disabled, self.worker = None
InitMainWindow ==
    /\ download_btn = "start_download"
    /\ download_enabled = FALSE
    /\ stop_btn = FALSE
    /\ worker = 0
    /\ handled = 0
    /\ startsLeft = MaxStarts
    /\ lastReturn = "none"
    /\ activeReplaced = FALSE

\* one session, constructed directly (no MainWindow in play)
Init ==
    /\ selected_files \in FileLists
    /\ repo_id = <<"MiniMaxAI", "/", "MiniMax-M2">>
    /\ local_dir = <<"models">>
    /\ speed_limit = None
    /\ aria2c_exists \in BOOLEAN
    /\ cmdsLeft = MaxCmds
    /\ InitWorker
    /\ InitMainWindow

InitBulk ==
    /\ selected_files \in { [k \in 1..n |-> k] : n \in 1..MaxBulk }
    /\ repo_id \in RepoIds
    /\ local_dir = <<"models">>
    /\ speed_limit = None
    /\ aria2c_exists \in BOOLEAN
    /\ cmdsLeft = 0
    /\ InitWorker
    /\ InitMainWindow

\* ---- the worker thread: DownloadWorker.run ----
Emit(e) == events' = Append(events, e)
Log(x) == envlog' = Append(envlog, x)

\* MainWindow.start_download: self.worker.start()
start ==
    /\ pcW = "init"
    /\ pcW' = "l47"
    /\ UNCHANGED <<sessVars, guiVars, flagVars, current_process, i, process,
                   return_code, procs, events, ctlVars, envlog>>

\* mutant of run_total: the empty list is not treated apart
run_total_nocheck ==
    /\ pcW = "l47"
    /\ UNCHANGED events /\ pcW' = "l56"
    /\ UNCHANGED <<sessVars, guiVars, flagVars, current_process, i, process,
                   return_code, procs, ctlVars, envlog>>

\* total = len(self.selected_files); if total == 0: finished.emit(); return
run_total ==
    /\ pcW = "l47"
    /\ IF total = 0
       THEN Emit(finished) /\ pcW' = "done"
       ELSE UNCHANGED events /\ pcW' = "l56"
    /\ UNCHANGED <<sessVars, guiVars, flagVars, current_process, i, process,
                   return_code, procs, ctlVars, envlog>>

\* os.makedirs(final_dir, exist_ok=True): outside any try, so an OSError
\* leaves run() as an uncaught exception and no signal is emitted.
run_makedirs_final ==
    /\ pcW = "l56"
    /\ \E ok \in BOOLEAN :
          IF ok THEN pcW' = "l61" /\ UNCHANGED envlog
                ELSE pcW' = "crashed" /\ Log("final_dir_failed")
    /\ UNCHANGED <<sessVars, guiVars, flagVars, current_process, i, process,
                   return_code, procs, events, ctlVars>>

\* mutant of run_aria2c_exists: the `return` after error.emit is missing
run_aria2c_exists_noreturn ==
    /\ pcW = "l61"
    /\ IF aria2c_exists THEN UNCHANGED <<events, envlog>>
                        ELSE Emit(error(0)) /\ Log("no_aria2c")
    /\ pcW' = "l66"
    /\ UNCHANGED <<sessVars, guiVars, flagVars, current_process, i, process,
                   return_code, procs, ctlVars>>

\* if not os.path.exists(aria2c_path): error.emit(...); return
run_aria2c_exists ==
    /\ pcW = "l61"
    /\ IF aria2c_exists THEN pcW' = "l66" /\ UNCHANGED <<events, envlog>>
                        ELSE Emit(error(0)) /\ pcW' = "done" /\ Log("no_aria2c")
    /\ UNCHANGED <<sessVars, guiVars, flagVars, current_process, i, process,
                   return_code, procs, ctlVars>>

\* for i, file_path in enumerate(...): if not self.running: cancelled.emit();
\* return.  After the last file: self.finished.emit().
run_for ==
    /\ pcW = "l66"
    /\ IF i >= total THEN Emit(finished) /\ pcW' = "done"
       ELSE IF ~running THEN Emit(cancelled) /\ pcW' = "done"
       ELSE UNCHANGED events /\ pcW' = "l76"
    /\ UNCHANGED <<sessVars, guiVars, flagVars, current_process, i, process,
                   return_code, procs, ctlVars, envlog>>

\* os.makedirs(os.path.dirname(full_path), exist_ok=True), inside the try
run_makedirs_parent ==
    /\ pcW = "l76"
    /\ \E ok \in BOOLEAN :
          IF ok THEN pcW' = "l94" /\ UNCHANGED envlog
                ELSE pcW' = "l145" /\ Log("mkdir_fail")
    /\ UNCHANGED <<sessVars, guiVars, flagVars, current_process, i, process,
                   return_code, procs, events, ctlVars>>

\* process = subprocess.Popen(cmd, ...)
run_Popen ==
    /\ pcW = "l94"
    /\ \E ok \in BOOLEAN, o \in 0..MaxOut :
          IF ok
          THEN /\ procs' = Append(procs, NewProc(selected_files[i + 1], o))
               /\ process' = Len(procs) + 1
               /\ pcW' = "l104"
               /\ UNCHANGED envlog
          ELSE /\ pcW' = "l145"
               /\ Log("popen_fail")
               /\ UNCHANGED <<procs, process>>
    /\ UNCHANGED <<sessVars, guiVars, flagVars, current_process, i, return_code,
                   events, ctlVars>>

\* self.current_process = process
run_store_process ==
    /\ pcW = "l104"
    /\ current_process' = process
    /\ pcW' = "l108"
    /\ UNCHANGED <<sessVars, guiVars, flagVars, i, process, return_code, procs,
                   events, ctlVars, envlog>>

\* mutant of run_check_running: the loop is left without process.terminate()
run_check_running_noterm ==
    /\ pcW = "l108"
    /\ UNCHANGED procs
    /\ pcW' = IF ~running THEN "l133" ELSE "l113"
    /\ UNCHANGED <<sessVars, guiVars, flagVars, current_process, i, process,
                   return_code, events, ctlVars, envlog>>

\* while True: if not self.running: process.terminate(); break
run_check_running ==
    /\ pcW = "l108"
    /\ IF ~running
       THEN procs' = terminate(procs, process, "W") /\ pcW' = "l133"
       ELSE UNCHANGED procs /\ pcW' = "l113"
    /\ UNCHANGED <<sessVars, guiVars, flagVars, current_process, i, process,
                   return_code, events, ctlVars, envlog>>

\* if self.is_paused and self.running:
run_check_paused ==
    /\ pcW = "l113"
    /\ pcW' = IF is_paused /\ running THEN "l116" ELSE "l124"
    /\ UNCHANGED <<sessVars, guiVars, flagVars, current_process, i, process,
                   return_code, procs, events, ctlVars, envlog>>

\* self.pause_requested.wait(): blocks until the Event is set
run_wait ==
    /\ pcW = "l116"
    /\ pause_requested
    /\ pcW' = "l117"
    /\ UNCHANGED <<sessVars, guiVars, flagVars, current_process, i, process,
                   return_code, procs, events, ctlVars, envlog>>

\* mutant of run_after_wait: after a resume the loop moves on to the next
\* file instead of going back to supervise the one in flight
run_after_wait_skip ==
    /\ pcW = "l117"
    /\ IF ~running
       THEN /\ procs' = terminate(procs, process, "W")
            /\ Emit(cancelled)
            /\ pcW' = "done"
            /\ UNCHANGED i
       ELSE UNCHANGED <<procs, events>> /\ i' = i + 1 /\ pcW' = "l66"
    /\ UNCHANGED <<sessVars, guiVars, flagVars, current_process, process,
                   return_code, ctlVars, envlog>>

\* if not self.running: process.terminate(); cancelled.emit(); return
\* continue
run_after_wait ==
    /\ pcW = "l117"
    /\ IF ~running
       THEN /\ procs' = terminate(procs, process, "W")
            /\ Emit(cancelled)
            /\ pcW' = "done"
       ELSE UNCHANGED <<procs, events>> /\ pcW' = "l108"
    /\ UNCHANGED <<sessVars, guiVars, flagVars, current_process, i, process,
                   return_code, ctlVars, envlog>>

\* output = process.stdout.readline(): blocks while the process is live and
\* has printed nothing more; a printed line may fail to decode (exception);
\* '' with poll() not None leaves the while loop.
run_readline ==
    /\ pcW = "l124"
    /\ IF procs[process].out > 0
       THEN /\ procs' = [procs EXCEPT ![process].out = @ - 1]
            /\ \E ok \in BOOLEAN :
                  IF ok THEN pcW' = "l108" /\ UNCHANGED envlog
                        ELSE pcW' = "l145" /\ Log("read_fail")
       ELSE /\ ~procs[process].live
            /\ pcW' = "l133"
            /\ UNCHANGED <<procs, envlog>>
    /\ UNCHANGED <<sessVars, guiVars, flagVars, current_process, i, process,
                   return_code, events, ctlVars>>

\* return_code = process.wait(): blocks until the process has exited
run_process_wait ==
    /\ pcW = "l133"
    /\ ~procs[process].live
    /\ return_code' = procs[process].rc
    /\ Log(IF procs[process].rc = 0 THEN "rc0" ELSE "rc1")
    /\ pcW' = "l136"
    /\ UNCHANGED <<sessVars, guiVars, flagVars, current_process, i, process,
                   procs, events, ctlVars>>

\* mutant of run_check_return_code: the exit status is not looked at
run_check_return_code_ignored ==
    /\ pcW = "l136"
    /\ pcW' = "l143"
    /\ UNCHANGED <<sessVars, guiVars, flagVars, current_process, i, process,
                   return_code, procs, events, ctlVars, envlog>>

\* if return_code != 0 and self.running: raise Exception(...)
run_check_return_code ==
    /\ pcW = "l136"
    /\ pcW' = IF return_code # 0 /\ running THEN "l145" ELSE "l143"
    /\ UNCHANGED <<sessVars, guiVars, flagVars, current_process, i, process,
                   return_code, procs, events, ctlVars, envlog>>

\* percent = int((i + 1) / total * 100); progress.emit(percent, file_path)
run_progress ==
    /\ pcW = "l143"
    /\ Emit(progress(percent(i, total), selected_files[i + 1]))
    /\ i' = i + 1
    /\ pcW' = "l66"
    /\ UNCHANGED <<sessVars, guiVars, flagVars, current_process, process,
                   return_code, procs, ctlVars, envlog>>

\* mutant of run_except: the `return` after error.emit is missing
run_except_noreturn ==
    /\ pcW = "l145"
    /\ IF running THEN Emit(error(selected_files[i + 1])) ELSE UNCHANGED events
    /\ i' = i + 1
    /\ pcW' = "l66"
    /\ UNCHANGED <<sessVars, guiVars, flagVars, current_process, process,
                   return_code, procs, ctlVars, envlog>>

\* except Exception as e: if self.running: error.emit(...); return
\* (otherwise the for loop goes on to the next file)
run_except ==
    /\ pcW = "l145"
    /\ IF running
       THEN Emit(error(selected_files[i + 1])) /\ pcW' = "done" /\ UNCHANGED i
       ELSE UNCHANGED events /\ i' = i + 1 /\ pcW' = "l66"
    /\ UNCHANGED <<sessVars, guiVars, flagVars, current_process, process,
                   return_code, procs, ctlVars, envlog>>

run ==
    \/ run_total \/ run_makedirs_final \/ run_aria2c_exists \/ run_for
    \/ run_makedirs_parent \/ run_Popen \/ run_store_process
    \/ run_check_running \/ run_check_paused \/ run_wait \/ run_after_wait
    \/ run_readline \/ run_process_wait \/ run_check_return_code
    \/ run_progress \/ run_except

\* ---- the environment: a live aria2c process exits on its own ----
process_exit ==
    /\ \E p \in LiveProcs, r \in {0, 1} :
          procs' = [procs EXCEPT ![p].live = FALSE, ![p].rc = r,
                                 ![p].stopAtExit = ~running]
    /\ UNCHANGED <<sessVars, guiVars, flagVars, current_process, workerVars,
                   events, ctlVars, envlog>>

\* ---- the controller thread: DownloadWorker.stop / pause / resume ----
TerminalEvents == SelectSeq(events, LAMBDA e : e.type \in TerminalTypes)

CanCall == pcC = "idle" /\ cmdsLeft > 0 /\ pcW # "init"

\* def stop(self): self.running = False
stop ==
    /\ CanCall
    /\ running' = FALSE
    /\ pcC' = "s156"
    /\ cmdsLeft' = cmdsLeft - 1
    /\ stopEarly' = (stopEarly \/ (TerminalEvents = <<>> /\ pcW # "crashed"))
    /\ lastCall' = "stop"
    /\ UNCHANGED <<sessVars, guiVars, is_paused, pause_requested, current_process,
                   workerVars, procs, events, envlog>>

\* self.is_paused = False
stop_l156 ==
    /\ pcC = "s156"
    /\ is_paused' = FALSE
    /\ pcC' = "s157"
    /\ UNCHANGED <<sessVars, guiVars, running, pause_requested, current_process,
                   workerVars, procs, events, cmdsLeft, stopEarly, lastCall,
                   envlog>>

\* self.pause_requested.set()
stop_l157 ==
    /\ pcC = "s157"
    /\ pause_requested' = TRUE
    /\ pcC' = "s158"
    /\ UNCHANGED <<sessVars, guiVars, running, is_paused, current_process,
                   workerVars, procs, events, cmdsLeft, stopEarly, lastCall,
                   envlog>>

\* if self.current_process: self.current_process.terminate()
stop_l158 ==
    /\ pcC = "s158"
    /\ procs' = IF current_process # 0
                THEN terminate(procs, current_process, "C") ELSE procs
    /\ pcC' = "idle"
    /\ UNCHANGED <<sessVars, guiVars, flagVars, current_process, workerVars,
                   events, cmdsLeft, stopEarly, lastCall,
                   envlog>>

\* mutant of pause: the guard does not look at self.running
pause_unguarded ==
    /\ CanCall
    /\ cmdsLeft' = cmdsLeft - 1
    /\ lastCall' = "pause"
    /\ IF ~is_paused
       THEN is_paused' = TRUE /\ pcC' = "p164"
       ELSE UNCHANGED <<is_paused, pcC>>
    /\ UNCHANGED <<sessVars, guiVars, running, pause_requested,
                   current_process, workerVars, procs, events, stopEarly,
                   envlog>>

\* def pause(self): if self.running and not self.is_paused: self.is_paused = True
pause ==
    /\ CanCall
    /\ cmdsLeft' = cmdsLeft - 1
    /\ lastCall' = "pause"
    /\ IF running /\ ~is_paused
       THEN is_paused' = TRUE /\ pcC' = "p164"
       ELSE UNCHANGED <<is_paused, pcC>>
    /\ UNCHANGED <<sessVars, guiVars, running, pause_requested,
                   current_process, workerVars, procs, events, stopEarly,
                   envlog>>

\* mutant of pause_l164: pausing also terminates the transfer in flight
pause_l164_terminate ==
    /\ pcC = "p164"
    /\ pause_requested' = FALSE
    /\ procs' = IF current_process # 0
                THEN terminate(procs, current_process, "C") ELSE procs
    /\ pcC' = "p165"
    /\ UNCHANGED <<sessVars, guiVars, running, is_paused, current_process,
                   workerVars, events, cmdsLeft, stopEarly, lastCall, envlog>>

\* self.pause_requested.clear()
pause_l164 ==
    /\ pcC = "p164"
    /\ pause_requested' = FALSE
    /\ pcC' = "p165"
    /\ UNCHANGED <<sessVars, guiVars, running, is_paused, current_process,
                   workerVars, procs, events, cmdsLeft, stopEarly, lastCall,
                   envlog>>

\* self.paused.emit(): emitted on the controller thread, so a connected slot
\* runs inside the call
paused_emit ==
    /\ pcC = "p165"
    /\ Emit(paused)
    /\ pcC' = "idle"
    /\ UNCHANGED <<sessVars, flagVars, current_process, workerVars,
                   procs, cmdsLeft, stopEarly, lastCall, envlog>>

\* self.paused.emit(), no slot connected
pause_l165 == paused_emit /\ UNCHANGED guiVars

\* mutant of resume: the guard does not look at self.is_paused
resume_unguarded ==
    /\ CanCall
    /\ cmdsLeft' = cmdsLeft - 1
    /\ lastCall' = "resume"
    /\ IF running
       THEN is_paused' = FALSE /\ pcC' = "r170"
       ELSE UNCHANGED <<is_paused, pcC>>
    /\ UNCHANGED <<sessVars, guiVars, running, pause_requested,
                   current_process, workerVars, procs, events, stopEarly,
                   envlog>>

\* def resume(self): if self.running and self.is_paused: self.is_paused = False
resume ==
    /\ CanCall
    /\ cmdsLeft' = cmdsLeft - 1
    /\ lastCall' = "resume"
    /\ IF running /\ is_paused
       THEN is_paused' = FALSE /\ pcC' = "r170"
       ELSE UNCHANGED <<is_paused, pcC>>
    /\ UNCHANGED <<sessVars, guiVars, running, pause_requested,
                   current_process, workerVars, procs, events, stopEarly,
                   envlog>>

\* self.pause_requested.set()
resume_l170 ==
    /\ pcC = "r170"
    /\ pause_requested' = TRUE
    /\ pcC' = "r171"
    /\ UNCHANGED <<sessVars, guiVars, running, is_paused, current_process,
                   workerVars, procs, events, cmdsLeft, stopEarly, lastCall,
                   envlog>>

\* self.resumed.emit(): emitted on the controller thread
resumed_emit ==
    /\ pcC = "r171"
    /\ Emit(resumed)
    /\ pcC' = "idle"
    /\ UNCHANGED <<sessVars, flagVars, current_process, workerVars,
                   procs, cmdsLeft, stopEarly, lastCall, envlog>>

\* self.resumed.emit(), no slot connected
resume_l171 == resumed_emit /\ UNCHANGED guiVars

\* a method the controller has entered runs to its end
ControllerStep ==
    \/ stop_l156 \/ stop_l157 \/ stop_l158
    \/ pause_l164 \/ pause_l165 \/ resume_l170 \/ resume_l171

\* ---- specifications ----
Next ==
    \/ start \/ run \/ process_exit
    \/ stop \/ pause \/ resume \/ ControllerStep

Spec == Init /\ [][Next]_vars

\* the worker alone (no controller call), file lists up to MaxBulk; without a
\* pause() is_paused stays FALSE and lines 116-122 are never reached
NextBulk ==
    \/ start \/ run_total \/ run_makedirs_final \/ run_aria2c_exists \/ run_for
    \/ run_makedirs_parent \/ run_Popen \/ run_store_process
    \/ run_check_running \/ run_check_paused
    \/ run_readline \/ run_process_wait \/ run_check_return_code
    \/ run_progress \/ run_except \/ process_exit

SpecBulk == InitBulk /\ [][NextBulk]_vars

\* Scheduling: both threads keep running (the OS schedules the worker, a
\* called method returns), and a transfer process that is left alone exits.
FairSpec ==
    /\ Spec
    /\ WF_vars(start)
    /\ WF_vars(run)
    /\ WF_vars(ControllerStep)
    /\ WF_vars(process_exit)

\* ---- views of the event log ----
OfType(ts) == SelectSeq(events, LAMBDA e : e.type \in ts)
ProgressEvents == OfType({"Progress"})
ErrorEvents == OfType({"Error"})
WorkerEvents == OfType({"Progress", "Finished", "Cancelled", "Error"})
PauseEvents == OfType({"Paused", "Resumed"})
WorkerEnded == pcW \in {"done", "crashed"}
Exited(p) == ~procs[p].live
Killed == {p \in 1..Len(procs) : procs[p].killed}

\* ---- MainWindow: the buttons, start_download and the slots ----
\* texts the user may have typed into repo_input, dir_input and speed_input
RepoTexts == { <<>>, <<" ">>, <<" ", "org", "/", "model", " ">> }

DirTexts == { <<>>, <<"models">> }

SpeedTexts == { <<>>, <<"5", "0", "0">>, <<"K">>, <<" ", "2", "m", " ">> }

\* the checked entries of the file list widget, in list order
Selections ==
    UNION { { s \in [1..n -> 1..MaxGuiFiles] :
                \A a, b \in 1..n : a < b => s[a] < s[b] } : n \in 0..MaxGuiFiles }

\* with the speed checkbox off the speed field is not read
StartInputs ==
    { StartInput(repo, dir, files, TRUE, speed) :
        repo \in RepoTexts, dir \in DirTexts, files \in Selections,
        speed \in SpeedTexts }
    \cup
    { StartInput(repo, dir, files, FALSE, <<>>) :
        repo \in RepoTexts, dir \in DirTexts, files \in Selections }

\* MainWindow before any session: no DownloadWorker object exists
InitGui ==
    /\ InitMainWindow
    /\ selected_files = <<>>
    /\ repo_id = <<>>
    /\ local_dir = <<>>
    /\ speed_limit = None
    /\ aria2c_exists \in BOOLEAN
    /\ running = FALSE
    /\ is_paused = FALSE
    /\ pause_requested = TRUE
    /\ current_process = 0
    /\ pcW = "none"
    /\ i = 0
    /\ process = 0
    /\ return_code = 0
    /\ procs = <<>>
    /\ events = <<>>
    /\ pcC = "idle"
    /\ cmdsLeft = 0
    /\ envlog = <<>>
    /\ stopEarly = FALSE
    /\ lastCall = "none"

\* load_file_list, when list_repo_files succeeds: the list widget is filled
\* and download_btn enabled (a failure only shows a message box)
load_file_list ==
    /\ pcC = "idle"
    /\ ~download_enabled
    /\ download_enabled' = TRUE
    /\ UNCHANGED <<sessVars, flagVars, current_process, workerVars, procs,
                   events, ctlVars, envlog, download_btn, stop_btn, worker,
                   handled, startsLeft, lastReturn, activeReplaced>>

\* the speed limit start_download passes on (lines 534-536)
SpeedOf(in) == IF in.on THEN strip(in.speed) ELSE None

\* a non-empty speed text passes if K, M or G occurs in its upper case
SpeedBad(in) ==
    /\ in.on
    /\ Truthy(SpeedOf(in))
    /\ ~\E k \in 1..Len(SpeedOf(in)) :
           upper(SpeedOf(in))[k] \in {"K", "M", "G"}

\* mutant of ReturnOf: the check of the selected files is missing
ReturnOf_nofiles(in) ==
    IF ~Truthy(strip(in.repo)) \/ ~Truthy(strip(in.dir)) THEN "l519"
    ELSE IF SpeedBad(in) THEN "l539"
    ELSE "l558"

\* the line at which start_download returns: one of the three early returns
\* (lines 519, 531, 539) or its end
ReturnOf(in) ==
    IF ~Truthy(strip(in.repo)) \/ ~Truthy(strip(in.dir)) THEN "l519"
    ELSE IF in.files = <<>> THEN "l531"
    ELSE IF SpeedBad(in) THEN "l539"
    ELSE "l558"

\* self.worker = DownloadWorker(...); connect the slots; self.worker.start();
\* download_btn -> pause_download; stop_btn enabled
CreateWorker(in) ==
    /\ selected_files' = in.files
    /\ repo_id' = strip(in.repo)
    /\ local_dir' = strip(in.dir)
    /\ speed_limit' = SpeedOf(in)
    /\ running' = TRUE
    /\ is_paused' = FALSE
    /\ pause_requested' = TRUE
    /\ current_process' = 0
    /\ pcW' = "init"
    /\ i' = 0
    /\ process' = 0
    /\ return_code' = 0
    /\ procs' = <<>>
    /\ events' = <<>>
    /\ envlog' = <<>>
    /\ stopEarly' = FALSE
    /\ lastCall' = "none"
    /\ cmdsLeft' = MaxGuiCmds
    /\ worker' = worker + 1
    /\ handled' = 0
    /\ activeReplaced' = (activeReplaced \/ (worker # 0 /\ TerminalEvents = <<>>))
    /\ download_btn' = "pause_download"
    /\ stop_btn' = TRUE

\* start_download with the inputs `in`
start_download(in) ==
    /\ pcC = "idle"
    /\ download_enabled
    /\ download_btn = "start_download"
    /\ startsLeft > 0
    /\ startsLeft' = startsLeft - 1
    /\ lastReturn' = ReturnOf(in)
    /\ IF ReturnOf(in) # "l558"
       THEN UNCHANGED <<selected_files, repo_id, local_dir, speed_limit,
                        flagVars, current_process, workerVars, procs,
                        events, envlog, stopEarly, lastCall, cmdsLeft,
                        worker, handled, activeReplaced, download_btn,
                        stop_btn>>
       ELSE CreateWorker(in)
    /\ UNCHANGED <<aria2c_exists, pcC, download_enabled>>

\* a click on download_btn while it is wired to start_download
start_click == \E in \in StartInputs : start_download(in)

\* pause_download: a click on download_btn while it is wired to it
pause_download ==
    /\ download_enabled /\ download_btn = "pause_download"
    /\ worker # 0
    /\ pause

\* resume_download: a click on download_btn while it is wired to it
resume_download ==
    /\ download_enabled /\ download_btn = "resume_download"
    /\ worker # 0
    /\ resume

\* stop_download: a click on stop_btn while it is enabled
stop_download ==
    /\ stop_btn
    /\ worker # 0 /\ running
    /\ stop

\* mutant of download_paused: the button goes back to start_download
download_paused_start ==
    /\ download_btn' = "start_download"
    /\ UNCHANGED <<download_enabled, stop_btn, worker, handled, startsLeft,
                   lastReturn, activeReplaced>>

\* slot download_paused: download_btn -> resume_download
download_paused ==
    /\ download_btn' = "resume_download"
    /\ UNCHANGED <<download_enabled, stop_btn, worker, handled, startsLeft,
                   lastReturn, activeReplaced>>

\* slot download_resumed: download_btn -> pause_download
download_resumed ==
    /\ download_btn' = "pause_download"
    /\ UNCHANGED <<download_enabled, stop_btn, worker, handled, startsLeft,
                   lastReturn, activeReplaced>>

\* paused / resumed are emitted on the GUI thread: the slot runs in the call
pause_l165_slot == paused_emit /\ download_paused
resume_l171_slot == resumed_emit /\ download_resumed

\* signals emitted by the worker thread are queued to the GUI thread and
\* delivered in order when it is idle; Queued is the next one, if any
Queued(t) ==
    /\ pcC = "idle"
    /\ handled < Len(WorkerEvents)
    /\ WorkerEvents[handled + 1].type = t
    /\ handled' = handled + 1

\* slot update_progress: progress bar and status text only
update_progress ==
    /\ Queued("Progress")
    /\ UNCHANGED <<sessVars, flagVars, current_process, workerVars, procs,
                   events, ctlVars, envlog, download_btn, download_enabled,
                   stop_btn, worker, startsLeft, lastReturn, activeReplaced>>

\* the end of download_finished / download_cancelled / download_error:
\* download_btn -> start_download, stop_btn disabled
RestoreButtons ==
    /\ download_btn' = "start_download"
    /\ stop_btn' = FALSE
    /\ UNCHANGED <<sessVars, flagVars, current_process, workerVars, procs,
                   events, ctlVars, envlog, download_enabled, worker,
                   startsLeft, lastReturn, activeReplaced>>

\* slot download_finished (its message box is modal)
download_finished == Queued("Finished") /\ RestoreButtons

\* slot download_cancelled
download_cancelled == Queued("Cancelled") /\ RestoreButtons

\* slot download_error (its message box is modal)
download_error == Queued("Error") /\ RestoreButtons

\* the GUI thread handles one click or one queued signal at a time
MainWindowStep ==
    \/ load_file_list \/ start_click
    \/ pause_download \/ resume_download \/ stop_download
    \/ update_progress \/ download_finished \/ download_cancelled
    \/ download_error

\* a DownloadWorker method entered from a slot runs to its end
WorkerMethodStep ==
    \/ stop_l156 \/ stop_l157 \/ stop_l158
    \/ pause_l164 \/ pause_l165_slot \/ resume_l170 \/ resume_l171_slot

NextGui == MainWindowStep \/ WorkerMethodStep \/ start \/ run \/ process_exit

\* the application: the main window, its sessions one after another, the
\* worker thread of the current session and its transfer processes
SpecGui == InitGui /\ [][NextGui]_vars

\* C1: a stop() called before any terminal event, while a transfer was in
\* flight (the process was killed by the terminate that stop causes), leads
\* to exactly one terminal event and that event is Cancelled, never Error or
\* Finished.  (That a terminal event is emitted at all is C6.)
C1_StopYieldsCancelled ==
    (stopEarly /\ Killed # {}) =>
        /\ Len(TerminalEvents) <= 1
        /\ \A k \in 1..Len(TerminalEvents) : TerminalEvents[k] = cancelled
        /\ (pcW = "done" => TerminalEvents = <<cancelled>>)

\* C2: a Progress event for a file is emitted only if that file's transfer
\* process ran to completion (was not terminated) and exited with code 0.
C2_ProgressOnlyOnSuccess ==
    \A k \in 1..Len(events) :
        events[k].type = "Progress" =>
            \E p \in 1..Len(procs) :
                /\ procs[p].file = events[k].file
                /\ Exited(p)
                /\ procs[p].rc = 0
                /\ ~procs[p].killed

\* every file's transfer ran and returned exit status 0
AllExitedZero ==
    /\ Len(envlog) = total
    /\ \A k \in 1..total : envlog[k] = "rc0"

\* C3: when every transfer of a non-empty list exits 0 (and nothing else
\* fails, no stop()), the events are exactly n Progress events in input
\* order, the k-th with percent floor(k*100/n), strictly increasing, ending
\* at 100, followed by one Finished.
C3_AllSucceed ==
    (pcW = "done" /\ total > 0 /\ running /\ AllExitedZero) =>
        /\ Len(events) = total + 1
        /\ \A k \in 1..total :
              events[k] = progress((k * 100) \div total, selected_files[k])
        /\ \A k \in 1..(total - 1) : events[k].percent < events[k + 1].percent
        /\ events[total].percent = 100
        /\ events[total + 1] = finished

\* C4: if the transfer process of file k exits non-zero and stop() is never
\* requested, the session emits Progress for files 1..k-1 only, then exactly
\* one Error, launches no transfer after k and never emits Finished.
C4_FailureStops ==
    \A k \in 1..Len(procs) :
        (Exited(k) /\ procs[k].rc # 0 /\ running) =>
            /\ Len(procs) = k
            /\ procs[k].file = selected_files[k]
            /\ ProgressEvents =
                 [j \in 1..(k - 1) |->
                     progress(percent(j - 1, total), selected_files[j])]
            /\ OfType({"Finished", "Cancelled"}) = <<>>
            /\ Len(ErrorEvents) <= 1
            /\ (pcW = "done" =>
                  WorkerEvents = ProgressEvents \o <<error(selected_files[k])>>)

C4_Witness ==
    /\ running
    /\ pcW = "done"
    /\ Len(procs) = 2
    /\ Exited(2) /\ procs[2].rc # 0
    /\ Len(ProgressEvents) = 1
    /\ ErrorEvents = <<error(selected_files[2])>>

\* the steps of run() whose failure raises an exception
FailureTags == {"final_dir_failed", "mkdir_fail", "popen_fail", "read_fail"}

RECURSIVE Expect(_, _)
\* the events of the uninterrupted run, from the outcomes the environment gave
Expect(log, k) ==
    IF log = <<>> THEN (IF k > total THEN <<finished>> ELSE <<>>)
    ELSE CASE Head(log) = "final_dir_failed" -> <<>>
           [] Head(log) = "no_aria2c" -> <<error(0)>>
           [] Head(log) = "rc0" ->
                <<progress(percent(k - 1, total), selected_files[k])>>
                    \o Expect(Tail(log), k + 1)
           [] OTHER -> <<error(selected_files[k])>>

\* C5: with no stop(), pause() and resume() are transparent: the Paused and
\* Resumed events alternate starting with Paused, the worker's own events
\* (Progress..., terminal) are exactly those of the run without pause/resume
\* under the same outcomes of the environment, and once the gate stays armed
\* the worker ends.
C5_PauseResumeTransparent ==
    /\ []((running /\ WorkerEnded) => WorkerEvents = Expect(envlog, 1))
    /\ [](running =>
            \A j \in 1..Len(PauseEvents) :
                PauseEvents[j] = IF j % 2 = 1 THEN paused ELSE resumed)
    /\ (([]running /\ <>[]pause_requested) => <>WorkerEnded)

C5_Witness ==
    /\ running
    /\ pcW = "done"
    /\ total = 2
    /\ events = <<progress(50, selected_files[1]), paused, resumed,
                  progress(100, selected_files[2]), finished>>

\* C6: once stop() has been called on a live session, the worker eventually
\* emits a terminal event (and ends), whatever it was blocked on.
C6_StopEndsWorker == stopEarly ~> (TerminalEvents # <<>>)

\* C7: after a terminal event a call of pause(), resume() or stop() is a
\* no-op: it changes neither the paused flag nor the pause gate.  (Stated
\* for sessions with at least one file, the only ones start_download makes.)
C7_NoOpAfterTerminal ==
    [][(total > 0 /\ TerminalEvents # <<>> /\ (pause \/ resume \/ stop)) =>
          (is_paused' = is_paused /\ pause_requested' = pause_requested)]_vars

\* C8: a transfer process that exited non-zero while no stop() had been
\* requested at the moment of the exit is reported by an Error event for
\* that file.
C8_NonZeroExitReported ==
    \A p \in 1..Len(procs) :
        (pcW = "done" /\ Exited(p) /\ procs[p].rc # 0 /\ ~procs[p].stopAtExit)
            => \E k \in 1..Len(events) : events[k] = error(procs[p].file)

\* C9: every failure of a step of run() while no stop is requested becomes
\* exactly one Error event; the worker never ends without a terminal event.
C9_FailuresBecomeError ==
    (running /\ WorkerEnded /\ \E k \in 1..Len(envlog) : envlog[k] \in FailureTags)
        => (Len(ErrorEvents) = 1 /\ Len(TerminalEvents) = 1)

\* C10: at most one transfer process of the session is live at any time.
C10_OneLiveProcess == Cardinality(LiveProcs) <= 1

C10_Witness ==
    /\ Len(procs) = 2
    /\ Exited(1)
    /\ procs[2].live

\* processes terminate() has been called on (by either thread)
Terminated == {p \in 1..Len(procs) : procs[p].termW \/ procs[p].termC}

\* C11: pause() never terminates the transfer in flight: terminate() has
\* been called on a process, or a process has been killed, only if stop()
\* has been requested, and no step of pause() changes any process.
C11_PauseKeepsProcess ==
    /\ [](running => (Terminated = {} /\ Killed = {}))
    /\ [][(pause \/ pause_l164 \/ pause_l165) => UNCHANGED procs]_vars

C11_Witness ==
    /\ running /\ is_paused /\ ~pause_requested
    /\ pcC = "idle"
    /\ pcW = "l116"
    /\ procs[process].live
    /\ events[Len(events)] = paused

\* C13: stop dominates pause: a pause() called after stop() changes neither
\* the paused flag nor the gate and returns at once, no Paused event is
\* emitted once stop() has been requested, after stop() has returned the
\* flag is false and the gate armed, and the worker still ends.
C13_StopDominatesPause ==
    /\ [][(~running /\ pause) =>
             (UNCHANGED <<is_paused, pause_requested, events>>
                /\ pcC' = "idle")]_vars
    /\ [][~running => OfType({"Paused"})' = OfType({"Paused"})]_vars
    /\ []((~running /\ pcC = "idle") => (~is_paused /\ pause_requested))
    /\ ((~running /\ lastCall = "pause") ~> WorkerEnded)

C13_Witness ==
    /\ stopEarly /\ ~running
    /\ lastCall = "pause"
    /\ pcC = "idle"
    /\ ~WorkerEnded
    /\ LiveProcs # {}
    /\ ~is_paused /\ pause_requested

\* C14: for an empty file list the worker emits Finished and nothing else:
\* no Progress, no Error, no Cancelled, no transfer process is launched and
\* no system call is made; with no controller call in between Finished is
\* the only event of the session.
C14_EmptyListFinishes ==
    total = 0 =>
        /\ procs = <<>> /\ envlog = <<>>
        /\ pcW \in {"init", "l47", "done"}
        /\ WorkerEvents = IF pcW = "done" THEN <<finished>> ELSE <<>>
        /\ (pcW = "done" /\ lastCall = "none") => events = <<finished>>

C14_Witness ==
    /\ total = 0
    /\ pcW = "done"
    /\ events = <<finished>>

\* C15: when the aria2c executable is not found and the file list is not
\* empty, no transfer process is ever launched, no Progress or Finished is
\* emitted, and the worker ends with exactly one Error as its only event.
C15_MissingToolReported ==
    (~aria2c_exists /\ total > 0) =>
        /\ procs = <<>>
        /\ OfType({"Progress", "Finished", "Cancelled"}) = <<>>
        /\ WorkerEnded => WorkerEvents = <<error(0)>>

\* the session is paused: Paused was the last of the Paused/Resumed events
\* and neither resume() nor stop() has been requested since
PausedNow ==
    /\ running /\ is_paused
    /\ PauseEvents # <<>>
    /\ PauseEvents[Len(PauseEvents)] = paused

\* C19: while the session is paused (between a Paused event and the next
\* resume or stop request) the worker launches no transfer process.  Stated
\* for the case that leaves no room for a race: a Progress event has been
\* emitted after the Paused event, so the pause was complete before the
\* previous file ended, and the worker still must not start the next file.
C19_NoLaunchWhilePaused ==
    [][(PausedNow /\ events[Len(events)].type = "Progress") =>
          Len(procs') = Len(procs)]_vars

\* processes in the scope of a stop(): live when stop() was requested or
\* launched afterwards (they are live now, or they exited after the request)
OwedTerminate ==
    {p \in 1..Len(procs) : ~running /\ (procs[p].live \/ procs[p].stopAtExit)}

C18_Destination ==
    LET sub == SubSeq(repo_id, rfind(repo_id) + 1, Len(repo_id))
    IN  /\ \A p \in 1..Len(procs) :
              /\ procs[p].dir \o <<"/">> \o procs[p].name =
                    local_dir \o <<"/">> \o sub \o <<"/">>
                        \o file_path(procs[p].file)
              /\ \A k \in 1..Len(procs[p].name) : procs[p].name[k] # "/"
              /\ SubSeq(procs[p].dir, 1, Len(local_dir) + 1 + Len(sub)) =
                    local_dir \o <<"/">> \o sub
        /\ repo_id = <<"MiniMaxAI", "/", "MiniMax-M2">> =>
              final_dir = <<"models", "/", "MiniMax-M2">>
        /\ repo_id = <<"single-name">> =>
              final_dir = <<"models", "/", "single-name">>

C18_Witness ==
    /\ repo_id = <<"MiniMaxAI", "/", "MiniMax-M2">>
    /\ Len(procs) >= 2
    /\ procs[1].dir = <<"models", "/", "MiniMax-M2">>
    /\ procs[1].name = <<"1">>
    /\ procs[2].dir = <<"models", "/", "MiniMax-M2", "/", "sub">>
    /\ procs[2].name = <<"2">>

\* C12: per main window at most one session that has not emitted a terminal
\* event exists: self.worker is never replaced while its session is active,
\* and whenever the start command is available (download_btn wired to
\* start_download) the current session, if any, has emitted its terminal
\* event.
C12_OneActiveSession ==
    /\ ~activeReplaced
    /\ (worker # 0 /\ download_btn = "start_download") =>
          (TerminalEvents # <<>> /\ pcW = "done"
             /\ handled = Len(WorkerEvents))

\* a second session in flight, created after the first one ended
C12_Witness ==
    /\ worker = 2
    /\ TerminalEvents = <<>>
    /\ LiveProcs # {}
    /\ download_btn = "resume_download"

Digits == {"0", "1", "2", "3", "4", "5", "6", "7", "8", "9"}

\* <positive integer><K|M|G>, the unit in either case
MatchesRate(s) ==
    /\ Len(s) >= 2
    /\ s[Len(s)] \in {"K", "M", "G", "k", "m", "g"}
    /\ \A k \in 1..(Len(s) - 1) : s[k] \in Digits
    /\ \E k \in 1..(Len(s) - 1) : s[k] # "0"

\* C16: with speed limiting enabled (and the other inputs valid) start
\* creates a session if and only if the speed text is empty or matches
\* <positive integer><K|M|G>; an empty limit puts no max-rate option on the
\* command line.
C16_SpeedLimitFormat ==
    /\ [][startsLeft' # startsLeft =>
            \A in \in StartInputs :
               (/\ in.on
                /\ strip(in.repo) # <<>> /\ strip(in.dir) # <<>>
                /\ in.files # <<>>
                /\ start_download(in)) =>
                  (worker' # worker <=>
                     (\/ strip(in.speed) = <<>>
                      \/ MatchesRate(strip(in.speed))))]_vars
    /\ [](speed_limit = <<>> => \A p \in 1..Len(procs) : procs[p].limit = <<>>)

\* C17: a start command with an empty repository id, an empty destination
\* path or no selected file changes nothing: no worker is created or
\* started, no event is emitted, buttons and self.worker stay as they were.
\* (A start step that changes any of these is not the step of such a
\* command.)
C17_InvalidStartRejected ==
    [][startsLeft' # startsLeft =>
          \/ UNCHANGED <<sessVars, flagVars, current_process, workerVars,
                         procs, events, ctlVars, envlog, download_btn,
                         download_enabled, stop_btn, worker, handled,
                         activeReplaced>>
          \/ \A in \in StartInputs :
                (\/ strip(in.repo) = <<>>
                 \/ strip(in.dir) = <<>>
                 \/ in.files = <<>>) => ~start_download(in)]_vars

\* a start with no file selected, rejected after a first session has ended
C17_Witness ==
    /\ lastReturn = "l531"
    /\ startsLeft = MaxStarts - 2
    /\ worker = 1
    /\ pcW = "done"
    /\ download_btn = "start_download"

\* C21: the handle of a transfer process is used by the worker thread only:
\* no step of the controller thread changes a process, and terminate() is
\* never called on a process from the thread that calls stop().
C21_HandleOwnedByWorker ==
    /\ [](\A p \in 1..Len(procs) : ~procs[p].termC)
    /\ [][(stop \/ ControllerStep) => UNCHANGED procs]_vars

\* C22: a session emits at most one terminal event; when it has been
\* emitted the worker thread has ended, it is the last of the worker's
\* events, and afterwards the worker takes no step, emits no event of its
\* own and launches no process.
C22_OneTerminalEvent ==
    /\ [](/\ Len(TerminalEvents) <= 1
          /\ TerminalEvents # <<>> =>
                /\ pcW = "done"
                /\ WorkerEvents[Len(WorkerEvents)].type \in TerminalTypes)
    /\ [][TerminalEvents # <<>> =>
            /\ UNCHANGED workerVars
            /\ WorkerEvents' = WorkerEvents
            /\ Len(procs') = Len(procs)]_vars

\* a session stopped during its second file, the controller's stop() still
\* finishing after the worker has ended
C22_Witness ==
    /\ pcW = "done"
    /\ Len(procs) = 2
    /\ WorkerEvents = <<progress(50, selected_files[1]), cancelled>>
    /\ pcC # "idle"

\* C23: over any sequence of pause(), resume() and stop() calls the Paused
\* and Resumed events alternate strictly, starting with Paused; pause() while
\* paused and resume() while not paused emit nothing, change neither flag
\* nor gate and return at once; and whenever no method is mid-execution the
\* gate is cleared exactly when the paused flag is true.
C23_PauseResumeAlternate ==
    /\ [](\A j \in 1..Len(PauseEvents) :
             PauseEvents[j] = IF j % 2 = 1 THEN paused ELSE resumed)
    /\ [](pcC = "idle" => (pause_requested <=> ~is_paused))
    /\ [][((pause /\ is_paused) \/ (resume /\ ~is_paused)) =>
            (UNCHANGED <<flagVars, events>> /\ pcC' = "idle")]_vars

\* three calls, one of them without effect: the session is running again
\* after one Paused and one Resumed
C23_Witness ==
    /\ running /\ ~is_paused /\ pause_requested
    /\ pcC = "idle"
    /\ cmdsLeft = MaxCmds - 3
    /\ lastCall = "resume"
    /\ PauseEvents = <<paused, resumed>>

====
